---- MODULE Spec2Model ----
(***************************************************************************)
(* Patho-Annotation: the batch extraction pipeline, the two-collection     *)
(* IndexedDB store and the review handlers of App (src/unnamed/part_001),  *)
(* as a state machine.  Every async handler is a task whose position (pc)  *)
(* advances from one await to the next; user events, storage completions   *)
(* and service responses interleave between the awaits.                    *)
(***************************************************************************)
EXTENDS Integers, Sequences, FiniteSets, TLC

\* ------------------------------------------------------------------ bounds
MaxPages == 3
MaxTasks == 2
MaxRuns == 2
MaxCases == 2
MaxRegions == 1
MaxDrafts == 2
MaxFaults == 1
MaxOps == 2
MaxClock == 2
MaxLen == 2

\* --------------------------------------------------------- program constants
CHUNK_SIZE == 2

\* JS undefined / null / a missing property, for string-valued properties
NoVal == "undefined"
\* The same for number- and array-valued properties: None, or Some(v)
None == <<>>
Some(v) == <<v>>

STORE_CASES == "cases"
STORE_DRAFTS == "drafts"
Stores == {STORE_CASES, STORE_DRAFTS}

VARIABLES
  user,               \* App state: the logged-in operator, or NoVal
  notification,       \* App state: the modal notification, or NoNote
  isAIProcessing,     \* App state: processing overlay shown
  isMinimized,        \* App state: overlay minimized
  batchProgress,      \* App state: [current, total]
  queuedImages,       \* App state: the page queue, a sequence of [id, selected]
  draftCases,         \* App state: the in-memory draft list
  globalHistory,      \* App state: the confirmed records as last loaded
  selectedDraftIndex, \* App state: 0-based index into draftCases
  dbCases,            \* IndexedDB object store 'cases' (keyPath caseId), committed
  dbDrafts,           \* IndexedDB object store 'drafts' (keyPath id), committed
  txq,                \* per store: the transactions issued and not yet finished
  tasks,              \* the async handlers in flight, each with its position
  usedIds,            \* uuidv4: the draft ids handed out so far
  runsStarted,        \* history: the batch runs started so far
  clock,              \* new Date(): the current time
  faults,             \* storage failures that have happened
  trace               \* history: the number of edits, confirmations and deletions
                      \* so far, the value each draft was last edited to, the
                      \* drafts whose handleDraftDelete has returned
VARIABLES
  section,            \* TextEntry prop: the text section shown, [label, content]
  structuredBasis,    \* TextEntry state: [gross, he, ihc, general]
  crop                \* cropImageByCoordinates: the image and box it was called
                      \* with, and the canvas and source origin once img.onload ran

\* The state of the mounted components and of the cropper, which no App handler
\* assigns.
components == <<section, structuredBasis, crop>>

vars == <<user, notification, isAIProcessing, isMinimized, batchProgress,
          queuedImages, draftCases, globalHistory, selectedDraftIndex,
          dbCases, dbDrafts, txq, tasks, usedIds, runsStarted, clock, faults, trace,
         section, structuredBasis, crop>>

\* ----------------------------------------------------------------- helpers
Min(a, b) == IF a <= b THEN a ELSE b

\* Math.ceil(n / k) for n >= 0, k > 0
Ceil(n, k) == (n + k - 1) \div k

\* Array.prototype.slice(a, b) on a 1-based sequence, a and b 0-based
Slice(s, a, b) == SubSeq(s, a + 1, Min(b, Len(s)))

RECURSIVE Flatten(_)
Flatten(ss) == IF ss = <<>> THEN <<>> ELSE Head(ss) \o Flatten(Tail(ss))

Range(s) == {s[k] : k \in 1..Len(s)}

Note(type, message) == [type |-> type, message |-> message]
NoNote == Note("none", "")

\* The notification modal (fixed inset-0 z-300) and the non-minimized processing
\* overlay (fixed inset-0 z-200) cover the page: no control under them is clickable.
UIFree == /\ user # NoVal
          /\ notification = NoNote
          /\ ~(isAIProcessing /\ ~isMinimized)



\* ------------------------------------------------------------------ storage
\* saveToDB / removeFromDB / getAllFromDB call indexedDB.open synchronously; open
\* requests of one database are served in order, and transactions whose scopes
\* overlap run in the order they were created: the operations of a store take
\* effect in the order of the calls.
KeyOf(store, rec) == IF store = STORE_CASES THEN rec.caseId ELSE rec.id

PutOp(data) == [op |-> "put", data |-> data]
DeleteOp(key) == [op |-> "delete", key |-> key]
GetAllOp(t) == [op |-> "getAll", task |-> t]

\* objectStore.put: the record replaces the one stored under the same key
StorePutKeepBoth(store, content, data) == content \cup {data}
StorePut(store, content, data) ==
  {r \in content : KeyOf(store, r) # KeyOf(store, data)} \cup {data}

\* objectStore.delete
StoreDelete(store, content, key) == {r \in content : KeyOf(store, r) # key}

Content(store) == IF store = STORE_CASES THEN dbCases ELSE dbDrafts

ApplyOp(store, content, o) ==
  IF o.op = "put" THEN StorePut(store, content, o.data)
  ELSE IF o.op = "delete" THEN StoreDelete(store, content, o.key)
  ELSE content

\* The transaction at the head of a store's queue that takes effect next
NextTx(q) == 1

RemoveAt(q, k) == SubSeq(q, 1, k - 1) \o SubSeq(q, k + 1, Len(q))


\* getAll returns the records in ascending key order.  Draft keys are the ids;
\* case keys are the caseId strings, ordered as IndexedDB orders strings.
CaseIdRank(cid) ==
  CASE cid = "Case-0-0" -> 1
    [] cid = "Case-0-1" -> 2
    [] cid = "Case-1-0" -> 3
    [] OTHER -> 4

Rank(store, rec) == IF store = STORE_CASES THEN CaseIdRank(rec.caseId) ELSE rec.id

RECURSIVE SortedByKey(_, _)
SortedByKey(store, S) ==
  IF S = {} THEN <<>>
  ELSE LET m == CHOOSE r \in S : \A q \in S : Rank(store, r) <= Rank(store, q)
       IN <<m>> \o SortedByKey(store, S \ {m})

\* A write transaction finishes: its put or delete takes effect.
TxCommit(store) ==
  /\ txq[store] # <<>>
  /\ LET k == NextTx(txq[store])
         o == txq[store][k]
     IN /\ o.op \in {"put", "delete"}
        /\ dbCases' = IF store = STORE_CASES THEN ApplyOp(store, dbCases, o) ELSE dbCases
        /\ dbDrafts' = IF store = STORE_DRAFTS THEN ApplyOp(store, dbDrafts, o) ELSE dbDrafts
        /\ txq' = [txq EXCEPT ![store] = RemoveAt(@, k)]
  /\ UNCHANGED <<user, notification, isAIProcessing, isMinimized, batchProgress,
                 queuedImages, draftCases, globalHistory, selectedDraftIndex,
                 tasks, usedIds, runsStarted, clock, faults, trace, components>>

\* A write request fails after saveToDB / removeFromDB has returned (the put is
\* refused, the transaction aborts): the functions installed no handler and their
\* promise is already resolved, so nothing in the program observes it.
TxAbort(store) ==
  /\ faults < MaxFaults
  /\ txq[store] # <<>>
  /\ LET k == NextTx(txq[store])
         o == txq[store][k]
     IN /\ o.op \in {"put", "delete"}
        /\ txq' = [txq EXCEPT ![store] = RemoveAt(@, k)]
  /\ faults' = faults + 1
  /\ UNCHANGED <<user, notification, isAIProcessing, isMinimized, batchProgress,
                 queuedImages, draftCases, globalHistory, selectedDraftIndex,
                 dbCases, dbDrafts, tasks, usedIds, runsStarted, clock, trace, components>>

\* ------------------------------------------------------- extraction service
\* The parsed response: result.cases, an array of cases, each with its detected
\* image regions.  A property the model left out is NoVal.
SeqsUpTo(S, n) == UNION {[1..k -> S] : k \in 0..n}

RegionsOver(Idx, Boxes, Types, Mags) ==
  [originalImageIndex : Idx, box_2d : Boxes, type : Types, magnification : Mags,
   description : {NoVal}]

CasesOver(Chapters, Numbers, Sections, RegionLists) ==
  [chapterNumber : Chapters, caseNumber : Numbers, organCategory : {NoVal},
   textSections : Sections, detectedImages : RegionLists]

\* Responses of a batch run: up to MaxCases cases, each with up to MaxRegions
\* regions declared on the chunk's first page.
BatchRegions == RegionsOver({Some(0)}, {"box"}, {"HE"}, {"x10"})
BatchCases == CasesOver({NoVal}, {NoVal}, {Some(<<>>)},
                        {Some(l) : l \in SeqsUpTo(BatchRegions, MaxRegions)})
BatchResponses == SeqsUpTo(BatchCases, MaxCases)

\* Responses of one case whose region declares any index, or none, and has a box
\* or has none.
MapRegions == RegionsOver({None, Some(-1), Some(0), Some(1), Some(2)},
                          {"box", NoVal}, {"HE"}, {"x10"})
MapCases == CasesOver({NoVal}, {NoVal}, {Some(<<>>)},
                      {Some(l) : l \in SeqsUpTo(MapRegions, MaxRegions)})
MapResponses == {<<c>> : c \in MapCases}

\* --------------------------------------------------- response -> draft record
\* chunk[imgInfo.originalImageIndex ?? 0]: the index counts within the chunk, and
\* a missing index is read as 0
SourceOfNoDefault(chunk, imgInfo) ==
  IF imgInfo.originalImageIndex # None
     /\ imgInfo.originalImageIndex[1] \in 0..(Len(chunk) - 1)
  THEN Some(chunk[imgInfo.originalImageIndex[1] + 1]) ELSE None
SourceOf(chunk, imgInfo) ==
  LET k == IF imgInfo.originalImageIndex = None THEN 0 ELSE imgInfo.originalImageIndex[1]
  IN IF k \in 0..(Len(chunk) - 1) THEN Some(chunk[k + 1]) ELSE None

\* if (!source || !imgInfo.box_2d) return null
IsCropped(chunk, imgInfo) ==
  SourceOf(chunk, imgInfo) # None /\ imgInfo.box_2d # NoVal

\* The ImageRecord of a cropped region: url and fileName are those of the source
\* page (source) and of the crop (box); the id is a fresh uuid, here the region's
\* place in detectedImages.
ImageOf(chunk, imgInfo, k) ==
  [id |-> k,
   source |-> SourceOf(chunk, imgInfo)[1],
   box |-> imgInfo.box_2d,
   type |-> IF imgInfo.type = "IHC" THEN "IHC" ELSE "HE",  \* '免疫组化' / 'HE染色'
   magnification |-> IF imgInfo.magnification \in {NoVal, ""} THEN "other"
                     ELSE imgInfo.magnification,
   description |-> IF imgInfo.description = NoVal THEN "" ELSE imgInfo.description]

\* (await Promise.all(imagePromises)).filter(img => img !== null)
RECURSIVE ImagesFrom(_, _, _)
ImagesFrom(chunk, infos, k) ==
  IF k > Len(infos) THEN <<>>
  ELSE (IF IsCropped(chunk, infos[k])
        THEN <<ImageOf(chunk, infos[k], k)>> ELSE <<>>)
       \o ImagesFrom(chunk, infos, k + 1)

OrDefault(v, d) == IF v \in {NoVal, ""} THEN d ELSE v

CaseIdOf(aiCase) ==
  "Case-" \o OrDefault(aiCase.chapterNumber, "0") \o "-" \o OrDefault(aiCase.caseNumber, "0")

SectionsOf(aiCase) ==
  LET ss == IF aiCase.textSections = None THEN <<>> ELSE aiCase.textSections[1]
  IN [k \in 1..Len(ss) |-> [id |-> k, label |-> ss[k].label, content |-> ss[k].content]]

RegionsOf(aiCase) ==
  IF aiCase.detectedImages = None THEN <<>> ELSE aiCase.detectedImages[1]

NewDraft(aiCase, chunk, id, now) ==
  [id |-> id,
   caseId |-> CaseIdOf(aiCase),
   organCategory |-> OrDefault(aiCase.organCategory, ""),
   textSections |-> SectionsOf(aiCase),
   images |-> ImagesFrom(chunk, RegionsOf(aiCase), 1),
   submittedAt |-> now,
   status |-> "draft"]


\* uuidv4(): an id not handed out yet
DraftIds == 1..MaxDrafts
NoTrace == [ops |-> 0, lastEdit |-> [id \in DraftIds |-> None], deleted |-> {}]
FreshIds(used) == {CHOOSE id \in DraftIds \ used : \A o \in DraftIds \ used : id <= o}

saveToDB(store, data) == [txq EXCEPT ![store] = Append(@, PutOp(data))]
removeFromDB(store, key) == [txq EXCEPT ![store] = Append(@, DeleteOp(key))]
getAllFromDB(store, t) == [txq EXCEPT ![store] = Append(@, GetAllOp(t))]

\* --------------------------------------------------------------- handlers
\* An async handler in flight occupies a slot until it has returned; a slot whose
\* handler has returned (pc "done") is taken by the next handler started.
Idle == [kind |-> "idle", pc |-> "done"]
Slots == 1..MaxTasks
HasFreeSlot == \E t \in Slots : tasks[t].pc = "done"
FreeSlot == CHOOSE t \in Slots :
              tasks[t].pc = "done" /\ \A u \in Slots : tasks[u].pc = "done" => t <= u
Spawn(r) == [tasks EXCEPT ![FreeSlot] = r]

\* ------------------------------------------------------------- page queue
togglePageSelection(id) ==
  /\ UIFree
  /\ \E k \in 1..Len(queuedImages) : queuedImages[k].id = id
  /\ queuedImages' = [k \in 1..Len(queuedImages) |->
                        IF queuedImages[k].id = id
                        THEN [queuedImages[k] EXCEPT !.selected = ~@]
                        ELSE queuedImages[k]]
  /\ UNCHANGED <<user, notification, isAIProcessing, isMinimized, batchProgress,
                 draftCases, globalHistory, selectedDraftIndex, dbCases, dbDrafts,
                 txq, tasks, usedIds, runsStarted, clock, faults, trace, components>>

setAllSelection(selected) ==
  /\ UIFree
  /\ queuedImages # <<>>
  /\ queuedImages' = [k \in 1..Len(queuedImages) |->
                        [queuedImages[k] EXCEPT !.selected = selected]]
  /\ UNCHANGED <<user, notification, isAIProcessing, isMinimized, batchProgress,
                 draftCases, globalHistory, selectedDraftIndex, dbCases, dbDrafts,
                 txq, tasks, usedIds, runsStarted, clock, faults, trace, components>>

\* The trash button of the selection grid: setQueuedImages([])
clearQueue ==
  /\ UIFree
  /\ queuedImages # <<>>
  /\ queuedImages' = <<>>
  /\ UNCHANGED <<user, notification, isAIProcessing, isMinimized, batchProgress,
                 draftCases, globalHistory, selectedDraftIndex, dbCases, dbDrafts,
                 txq, tasks, usedIds, runsStarted, clock, faults, trace, components>>

\* The overlay's Minimize / Expand button
toggleMinimized ==
  /\ isAIProcessing
  /\ notification = NoNote
  /\ isMinimized' = ~isMinimized
  /\ UNCHANGED <<user, notification, isAIProcessing, batchProgress, queuedImages,
                 draftCases, globalHistory, selectedDraftIndex, dbCases, dbDrafts,
                 txq, tasks, usedIds, runsStarted, clock, faults, trace, components>>

\* The notification's OK button
dismissNotification ==
  /\ notification # NoNote
  /\ notification' = NoNote
  /\ UNCHANGED <<user, isAIProcessing, isMinimized, batchProgress, queuedImages,
                 draftCases, globalHistory, selectedDraftIndex, dbCases, dbDrafts,
                 txq, tasks, usedIds, runsStarted, clock, faults, trace, components>>


\* ----------------------------------------------------- processBatchSequentially
\* A run is a task: sel is imagesToProcess, i the loop variable, cases the parsed
\* result.cases of the current chunk, j the case being processed, pending the
\* regions whose crop has not resolved, chunkDrafts the local array.  History
\* fields: sent (the chunks whose extraction call was issued, in order), saved (ids
\* of the drafts whose put it issued), appended (ids of the drafts it appended to
\* draftCases).
IsRun(t) == tasks[t].kind = "batch" /\ tasks[t].pc # "done"
Runs == {t \in Slots : IsRun(t)}
\* const chunk = imagesToProcess.slice(i, i + CHUNK_SIZE)
ChunkOfOne(sel, i) == <<sel[i + 1]>>
ChunkAt(sel, i) == Slice(sel, i, i + CHUNK_SIZE)
Chunk(r) == ChunkAt(r.sel, r.i)

\* setBatchProgress(prev => ({ ...prev, current: Math.floor(i / CHUNK_SIZE) + 1 }))
ProgressAt(prev, i) == [prev EXCEPT !.current = (i \div CHUNK_SIZE) + 1]

\* catch (err) { setNotification(error) } finally { setIsAIProcessing(false) }
BatchCatchRollback(t, r) ==
  /\ notification' = Note("error", "batch failed")
  /\ isAIProcessing' = FALSE
  /\ tasks' = [tasks EXCEPT ![t] = Idle]
  /\ dbDrafts' = {d \in dbDrafts : d.id \notin r.saved}
  /\ UNCHANGED <<user, isMinimized, batchProgress, queuedImages, draftCases,
                 globalHistory, selectedDraftIndex, dbCases, txq,
                 usedIds, runsStarted, clock, faults, trace, components>>
\* A catch with no finally after it: the processing flag stays set.
BatchCatchKeepsFlag(t, r) ==
  /\ notification' = Note("error", "batch failed")
  /\ tasks' = [tasks EXCEPT ![t] = Idle]
  /\ UNCHANGED <<user, isAIProcessing, isMinimized, batchProgress, queuedImages,
                 draftCases, globalHistory, selectedDraftIndex, dbCases, dbDrafts,
                 txq, usedIds, runsStarted, clock, faults, trace, components>>

BatchCatch(t, r) ==
  /\ notification' = Note("error", "batch failed")
  /\ isAIProcessing' = FALSE
  /\ tasks' = [tasks EXCEPT ![t] = Idle]
  /\ UNCHANGED <<user, isMinimized, batchProgress, queuedImages, draftCases,
                 globalHistory, selectedDraftIndex, dbCases, dbDrafts, txq,
                 usedIds, runsStarted, clock, faults, trace, components>>

\* The end of the for-of loop over result.cases: the chunk's drafts are appended;
\* then the next chunk's call is issued, or the run completes.
ChunkEnd(t, r) ==
  /\ draftCases' = draftCases \o r.chunkDrafts
  /\ IF r.i + CHUNK_SIZE < Len(r.sel)
     THEN LET i == r.i + CHUNK_SIZE IN
          /\ batchProgress' = ProgressAt(batchProgress, i)
          /\ tasks' = [tasks EXCEPT ![t] =
                [r EXCEPT !.pc = "call", !.i = i, !.cases = <<>>, !.j = 0,
                          !.chunkDrafts = <<>>,
                          !.appended = @ \cup {d.id : d \in Range(r.chunkDrafts)},
                          !.sent = Append(@, ChunkAt(r.sel, i))]]
          /\ UNCHANGED <<queuedImages, notification, isAIProcessing, components>>
     ELSE /\ queuedImages' = <<>>
          /\ notification' = Note("success", "batch done")
          /\ isAIProcessing' = FALSE
          /\ tasks' = [tasks EXCEPT ![t] = Idle]
          /\ UNCHANGED batchProgress
  /\ UNCHANGED <<user, isMinimized, globalHistory, selectedDraftIndex, dbCases,
                 dbDrafts, txq, usedIds, runsStarted, clock, faults, trace, components>>

\* The draft of case r.j is built, pushed on chunkDrafts and handed to saveToDB,
\* whose open request either succeeds later (the put is then issued) or fails (the
\* promise rejects).
CaseSave(t, r) ==
  \E id \in FreshIds(usedIds) :
  \E opens \in BOOLEAN :
    LET newDraft == NewDraft(r.cases[r.j], Chunk(r), id, clock) IN
    /\ opens \/ faults < MaxFaults
    /\ usedIds' = usedIds \cup {id}
    /\ txq' = IF opens THEN saveToDB(STORE_DRAFTS, newDraft) ELSE txq
    /\ faults' = IF opens THEN faults ELSE faults + 1
    /\ tasks' = [tasks EXCEPT ![t] =
          [r EXCEPT !.pc = "save", !.pending = {}, !.rejected = ~opens,
                    !.chunkDrafts = Append(@, newDraft),
                    !.saved = IF opens THEN @ \cup {id} ELSE @]]
    /\ UNCHANGED <<user, notification, isAIProcessing, isMinimized, batchProgress,
                   queuedImages, draftCases, globalHistory, selectedDraftIndex,
                   dbCases, dbDrafts, runsStarted, clock, trace, components>>

\* The body of the for-of loop for case r.j up to its first await: every region
\* with a source page and a box starts its crop.
CaseBegin(t, r) ==
  LET infos == RegionsOf(r.cases[r.j])
      crops == {k \in 1..Len(infos) : IsCropped(Chunk(r), infos[k])}
  IN IF crops = {}
     THEN CaseSave(t, r)
     ELSE /\ tasks' = [tasks EXCEPT ![t] = [r EXCEPT !.pc = "crops", !.pending = crops]]
          /\ UNCHANGED <<user, notification, isAIProcessing, isMinimized,
                         batchProgress, queuedImages, draftCases, globalHistory,
                         selectedDraftIndex, dbCases, dbDrafts, txq, usedIds,
                         runsStarted, clock, faults, trace, components>>

\* The click on the start button, up to the first extraction call
processBatchSequentially ==
  /\ UIFree
  /\ HasFreeSlot
  /\ runsStarted < MaxRuns
  /\ runsStarted' = runsStarted + 1
  /\ LET imagesToProcess == SelectSeq(queuedImages, LAMBDA img : img.selected) IN
     /\ Len(imagesToProcess) # 0
     /\ batchProgress' = ProgressAt([current |-> 0,
                                     total |-> Ceil(Len(imagesToProcess), CHUNK_SIZE)], 0)
     /\ tasks' = Spawn(
          [kind |-> "batch", pc |-> "call",
           sel |-> [k \in 1..Len(imagesToProcess) |-> imagesToProcess[k].id],
           i |-> 0, cases |-> <<>>, j |-> 0, pending |-> {}, chunkDrafts |-> <<>>,
           rejected |-> FALSE,
           sent |-> <<ChunkAt([k \in 1..Len(imagesToProcess) |-> imagesToProcess[k].id], 0)>>,
           saved |-> {}, appended |-> {}])
  /\ isAIProcessing' = TRUE
  /\ isMinimized' = FALSE
  /\ UNCHANGED <<user, notification, queuedImages, draftCases, globalHistory,
                 selectedDraftIndex, dbCases, dbDrafts, txq, usedIds, clock, faults, trace, components>>

\* The drafts the runs in flight have still to create from the responses they hold
RECURSIVE DraftsDue(_)
DraftsDue(k) ==
  IF k = 0 THEN 0
  ELSE DraftsDue(k - 1)
       + (IF IsRun(k) THEN Len(tasks[k].cases) - Len(tasks[k].chunkDrafts) ELSE 0)

\* generateContent resolves and the text parses to an object with a cases array
\* (an empty text is read as '{"cases": []}')
\* A run that takes a response without cases for a failure.
ResponseEmptyFails(t, cases) ==
  /\ IsRun(t) /\ tasks[t].pc = "call"
  /\ Cardinality(usedIds) + DraftsDue(MaxTasks) + Len(cases) <= MaxDrafts
  /\ IF cases = <<>>
     THEN BatchCatch(t, tasks[t])
     ELSE CaseBegin(t, [tasks[t] EXCEPT !.cases = cases, !.j = 1])

Response(t, cases) ==
  /\ IsRun(t) /\ tasks[t].pc = "call"
  /\ Cardinality(usedIds) + DraftsDue(MaxTasks) + Len(cases) <= MaxDrafts
  /\ IF cases = <<>>
     THEN ChunkEnd(t, tasks[t])
     ELSE CaseBegin(t, [tasks[t] EXCEPT !.cases = cases, !.j = 1])

\* JSON.parse(response.text || '{"cases": []}').cases: a response without a body
\* counts as one with no cases.
CasesOf(text) == IF text = None THEN <<>> ELSE text[1]
BatchTexts == {None} \cup {Some(cases) : cases \in BatchResponses}
BatchResponse(t) == \E text \in BatchTexts : Response(t, CasesOf(text))

\* generateContent rejects, JSON.parse throws, or result.cases is not iterable
BatchCallFails(t) ==
  /\ IsRun(t) /\ tasks[t].pc = "call"
  /\ BatchCatch(t, tasks[t])

\* img.onload of one crop; after the last one Promise.all resolves
BatchCropDone(t) ==
  /\ IsRun(t) /\ tasks[t].pc = "crops"
  /\ \E k \in tasks[t].pending :
       IF tasks[t].pending = {k}
       THEN CaseSave(t, tasks[t])
       ELSE /\ tasks' = [tasks EXCEPT ![t].pending = @ \ {k}]
            /\ UNCHANGED <<user, notification, isAIProcessing, isMinimized,
                           batchProgress, queuedImages, draftCases, globalHistory,
                           selectedDraftIndex, dbCases, dbDrafts, txq, usedIds,
                           runsStarted, clock, faults, trace, components>>

\* await saveToDB(STORE_DRAFTS, newDraft) returns
BatchSaved(t) ==
  /\ IsRun(t) /\ tasks[t].pc = "save"
  /\ LET r == tasks[t] IN
     IF r.rejected THEN BatchCatch(t, r)
     ELSE IF r.j < Len(r.cases) THEN CaseBegin(t, [r EXCEPT !.j = r.j + 1])
     ELSE ChunkEnd(t, r)

\* --------------------------------------------------- cropImageByCoordinates
\* Pixel quantities are kept exact, in thousandths of a pixel: width is
\* ((xmax - xmin) / 1000) * img.width, a double.
Thousandths(from, to, size) == (to - from) * size

\* canvas.width = value: an unsigned long, the double truncated. The double of an
\* extent that is a whole number of pixels may be that number or a neighbouring
\* double (0.29 * 100 is 28.999999999999996), so its truncation may be one less.
Truncated(num) ==
  {num \div 1000} \cup (IF num % 1000 = 0 THEN {(num \div 1000) - 1} ELSE {})

\* canvas.width = Math.max(0, width): an extent under a pixel gives 0.
CanvasSizeClampZero(num) ==
  IF num < 1000 THEN {0} ELSE {n \in Truncated(num) : n >= 0}

\* canvas.width = Math.max(1, width)
CanvasSize(num) == IF num < 1000 THEN {1} ELSE {n \in Truncated(num) : n >= 1}

NoCrop == crop = [img |-> [width |-> 1, height |-> 1], box |-> <<0, 0, 0, 0>>,
                  canvas |-> None, origin |-> None]

\* img.onload of cropImageByCoordinates(base64, mimeType, box)
cropImageByCoordinates ==
  /\ crop.canvas = None
  /\ LET ymin == crop.box[1]
         xmin == crop.box[2]
         ymax == crop.box[3]
         xmax == crop.box[4]
     IN \E w \in CanvasSize(Thousandths(xmin, xmax, crop.img.width)) :
        \E h \in CanvasSize(Thousandths(ymin, ymax, crop.img.height)) :
          crop' = [crop EXCEPT
                     !.canvas = Some([width |-> w, height |-> h]),
                     !.origin = Some([x |-> Thousandths(0, xmin, crop.img.width),
                                      y |-> Thousandths(0, ymin, crop.img.height)])]
  /\ UNCHANGED <<user, notification, isAIProcessing, isMinimized, batchProgress,
                 queuedImages, draftCases, globalHistory, selectedDraftIndex, dbCases,
                 dbDrafts, txq, tasks, usedIds, runsStarted, clock, faults, trace,
                 section, structuredBasis>>

\* ---------------------------------------------------------------- TextEntry
\* Text is a sequence of characters. Chars are the characters the operator types:
\* the double quote (which JSON.stringify escapes) and the two braces (which it
\* copies, as it does a letter). The backslash is written only by JSON.stringify.
Chars == {"\"", "{", "}"}
Texts == SeqsUpTo(Chars, MaxLen)
BasisKeys == <<"gross", "he", "ihc", "general">>
KeyChars == [gross |-> <<"g", "r", "o", "s", "s">>, he |-> <<"h", "e">>,
             ihc |-> <<"i", "h", "c">>,
             general |-> <<"g", "e", "n", "e", "r", "a", "l">>]

\* JSON.stringify of a string: quoted, with '"' and '\' escaped.
RECURSIVE Escaped(_)
Escaped(s) ==
  IF s = <<>> THEN <<>>
  ELSE (IF Head(s) \in {"\"", "\\"} THEN <<"\\", Head(s)>> ELSE <<Head(s)>>)
       \o Escaped(Tail(s))

Quoted(s) == <<"\"">> \o Escaped(s) \o <<"\"">>

\* JSON.stringify(next): the four keys in the order of structuredBasis.
RECURSIVE Members(_, _)
Members(b, k) ==
  IF k > Len(BasisKeys) THEN <<>>
  ELSE (IF k = 1 THEN <<>> ELSE <<",">>)
       \o Quoted(KeyChars[BasisKeys[k]]) \o <<":">> \o Quoted(b[BasisKeys[k]])
       \o Members(b, k + 1)

JSONstringify(b) == <<"{">> \o Members(b, 1) \o <<"}">>

\* JSON.parse over the characters above: a value is a string or an object whose
\* members are "key":value; no other value can begin with one of these characters.
\* A result is [ok, val, pos]; ok = FALSE is the SyntaxError.
JSString(s) == [t |-> "string", v |-> s]
JSObject(ms) == [t |-> "object", v |-> ms]
SyntaxError == [ok |-> FALSE]
Parsed(val, pos) == [ok |-> TRUE, val |-> val, pos |-> pos]

RECURSIVE ScanString(_, _, _)
ScanString(s, i, acc) ==
  IF i > Len(s) THEN SyntaxError
  ELSE IF s[i] = "\"" THEN Parsed(acc, i + 1)
  ELSE IF s[i] = "\\"
         THEN IF i + 1 <= Len(s) /\ s[i + 1] \in {"\"", "\\"}
                THEN ScanString(s, i + 2, Append(acc, s[i + 1]))
                ELSE SyntaxError
  ELSE ScanString(s, i + 1, Append(acc, s[i]))

RECURSIVE ParseValue(_, _)
RECURSIVE ParseMembers(_, _, _)
ParseValue(s, i) ==
  IF i > Len(s) THEN SyntaxError
  ELSE IF s[i] = "\""
         THEN LET r == ScanString(s, i + 1, <<>>) IN
              IF r.ok THEN Parsed(JSString(r.val), r.pos) ELSE SyntaxError
  ELSE IF s[i] = "{"
         THEN IF i + 1 <= Len(s) /\ s[i + 1] = "}"
                THEN Parsed(JSObject(<<>>), i + 2)
                ELSE ParseMembers(s, i + 1, <<>>)
  ELSE SyntaxError

ParseMembers(s, i, acc) ==
  IF i > Len(s) \/ s[i] /= "\"" THEN SyntaxError
  ELSE LET k == ScanString(s, i + 1, <<>>) IN
       IF ~k.ok \/ k.pos > Len(s) \/ s[k.pos] /= ":" THEN SyntaxError
       ELSE LET v == ParseValue(s, k.pos + 1) IN
            IF ~v.ok \/ v.pos > Len(s) THEN SyntaxError
            ELSE LET ms == Append(acc, [k |-> k.val, v |-> v.val]) IN
                 IF s[v.pos] = "," THEN ParseMembers(s, v.pos + 1, ms)
                 ELSE IF s[v.pos] = "}" THEN Parsed(JSObject(ms), v.pos + 1)
                 ELSE SyntaxError

JSONparse(s) ==
  LET r == ParseValue(s, 1) IN
  IF r.ok /\ r.pos = Len(s) + 1 THEN r ELSE SyntaxError

\* parsed[key] || '': the last member of that name; a member that is itself an
\* object is shown by the textarea as "[object Object]".
OrEmpty(parsed, key) ==
  LET hits == {n \in 1..Len(parsed.v) : parsed.v[n].k = KeyChars[key]} IN
  IF hits = {} THEN <<>>
  ELSE LET val == parsed.v[CHOOSE n \in hits : \A m \in hits : m <= n].v IN
       IF val.t = "string" THEN val.v ELSE <<"[object Object]">>

\* useState initializer of structuredBasis.
InitialBasis(sec) ==
  LET r == JSONparse(sec.content)
      plain == [gross |-> <<>>, he |-> <<>>, ihc |-> <<>>, general |-> sec.content]
  IN IF sec.label = "basis" /\ r.ok /\ r.val.t = "object"
       THEN [key \in {"gross", "he", "ihc", "general"} |-> OrEmpty(r.val, key)]
       ELSE plain

\* The content handleStructuredChange hands to onUpdate.
ContentOf(next) ==
  IF next.gross /= <<>> \/ next.he /= <<>> \/ next.ihc /= <<>>
    THEN JSONstringify(next)
    ELSE next.general

\* One keystroke in a textarea: a character typed or deleted at the end.
Keystrokes(s) ==
  {Append(s, c) : c \in IF Len(s) < MaxLen THEN Chars ELSE {}}
    \cup (IF s = <<>> THEN {} ELSE {SubSeq(s, 1, Len(s) - 1)})

handleStructuredChange(key, value) ==
  LET next == [structuredBasis EXCEPT ![key] = value] IN
  /\ structuredBasis' = next
  /\ section' = [section EXCEPT !.content = ContentOf(next)]

\* The section is shown again (another draft was selected and this one reselected,
\* or the page was reloaded): the component state is initialized from the prop.
mountTextEntry ==
  /\ structuredBasis' = InitialBasis(section)
  /\ UNCHANGED section

AppIdle ==
  UNCHANGED <<user, notification, isAIProcessing, isMinimized, batchProgress,
              queuedImages, draftCases, globalHistory, selectedDraftIndex, dbCases,
              dbDrafts, txq, tasks, usedIds, runsStarted, clock, faults, trace>>

\* No diagnostic-basis section is shown.
NoTextEntry ==
  /\ section = [label |-> "basis", content |-> <<>>]
  /\ structuredBasis = InitialBasis(section)

\* ------------------------------------------------------------ specifications
\* The application after login and the initial load, with empty collections and
\* a queue of freshly imported pages (an import leaves every page selected).
InitBatch ==
  /\ user = "Operator_01"
  /\ notification = NoNote
  /\ isAIProcessing = FALSE
  /\ isMinimized = FALSE
  /\ batchProgress = [current |-> 0, total |-> 0]
  /\ \E n \in 1..MaxPages : queuedImages = [k \in 1..n |-> [id |-> k, selected |-> TRUE]]
  /\ draftCases = <<>>
  /\ globalHistory = <<>>
  /\ selectedDraftIndex = 0
  /\ dbCases = {}
  /\ dbDrafts = {}
  /\ txq = [s \in Stores |-> <<>>]
  /\ tasks = [t \in Slots |-> Idle]
  /\ usedIds = {}
  /\ runsStarted = 0
  /\ clock = 0
  /\ faults = 0
  /\ trace = NoTrace
  /\ NoTextEntry
  /\ NoCrop

NextBatch ==
  \/ \E id \in 1..MaxPages : togglePageSelection(id)
  \/ \E b \in BOOLEAN : setAllSelection(b)
  \/ clearQueue
  \/ toggleMinimized
  \/ dismissNotification
  \/ processBatchSequentially
  \/ \E t \in Slots : BatchResponse(t)
  \/ \E t \in Slots : BatchCallFails(t)
  \/ \E t \in Slots : BatchCropDone(t)
  \/ \E t \in Slots : BatchSaved(t)
  \/ TxCommit(STORE_DRAFTS)
  \/ TxAbort(STORE_DRAFTS)

SpecBatch == InitBatch /\ [][NextBatch]_vars

\* A run in flight goes on: the extraction call it waits for resolves or rejects,
\* a pending crop loads, the await of saveToDB returns.
RunStep(t) ==
  BatchResponse(t) \/ BatchCallFails(t) \/ BatchCropDone(t) \/ BatchSaved(t)

\* Batch runs over the queue as imported (no page is deselected, the queue is
\* not cleared), in which every call, crop and write settles.
NextRun ==
  \/ toggleMinimized
  \/ dismissNotification
  \/ processBatchSequentially
  \/ \E t \in Slots : BatchResponse(t)
  \/ \E t \in Slots : BatchCallFails(t)
  \/ \E t \in Slots : BatchCropDone(t)
  \/ \E t \in Slots : BatchSaved(t)
  \/ TxCommit(STORE_DRAFTS)
  \/ TxAbort(STORE_DRAFTS)

SpecRunLive == InitBatch /\ [][NextRun]_vars /\ \A t \in Slots : WF_vars(RunStep(t))

\* The mapping of a response to a draft: an undisturbed run over the queue, the
\* service answering each chunk with one case.
MapResponse(t) == \E cases \in MapResponses : Response(t, cases)

NextMap ==
  \/ processBatchSequentially
  \/ \E t \in Slots : MapResponse(t)
  \/ \E t \in Slots : BatchCropDone(t)
  \/ \E t \in Slots : BatchSaved(t)
  \/ TxCommit(STORE_DRAFTS)
  \/ dismissNotification

SpecMap == InitBatch /\ [][NextMap]_vars

\* The enumerations of types.ts, by short names: TextLabel (PATIENT_DATA ...
\* KNOWLEDGE), ImageType (HE, IHC), Magnification (X10 ... OTHER).
TextLabels == {"patient", "gross", "ihcText", "diagnosis", "basis", "differential",
               "knowledge"}
ImageTypes == {"HE", "IHC"}
Magnifications == {"x10", "x20", "x40", "x100", "x200", "x400", "other"}

\* Responses of one case with one text section and one region on the chunk's
\* first page; label, type and magnification are a member of their enumeration,
\* or a string outside it (type and magnification may also be missing).
EnumRegions == RegionsOver({Some(0)}, {"box"}, {"HE", "IHC", "PAS", NoVal},
                           {"x10", "x5", NoVal})
EnumSections == {<<[label |-> l, content |-> "c0"]>> : l \in {"diagnosis", "summary"}}
EnumCases == CasesOver({NoVal}, {NoVal}, {Some(ss) : ss \in EnumSections},
                       {Some(<<g>>) : g \in EnumRegions})
EnumResponses == {<<c>> : c \in EnumCases}

EnumResponse(t) == \E cases \in EnumResponses : Response(t, cases)

NextEnum ==
  \/ processBatchSequentially
  \/ \E t \in Slots : EnumResponse(t)
  \/ \E t \in Slots : BatchCropDone(t)
  \/ \E t \in Slots : BatchSaved(t)
  \/ TxCommit(STORE_DRAFTS)
  \/ dismissNotification

SpecEnum == InitBatch /\ [][NextEnum]_vars

\* ------------------------------------------------------------------ review
\* const currentCase = draftCases[selectedDraftIndex] || null
HasCurrent == selectedDraftIndex < Len(draftCases)
currentCase == draftCases[selectedDraftIndex + 1]

\* new Date(): the time has advanced since the last reading, or has not
Now == {c \in {clock, clock + 1} : c <= MaxClock}

\* { ...x, ...up }
Merge(x, up) == [f \in DOMAIN x |-> IF f \in DOMAIN up THEN up[f] ELSE x[f]]

\* The values the operator enters
OrganChoices == {"lung"}
TextPatches == {[content |-> "c1"], [label |-> "basis"]}
ImagePatches == {[type |-> "IHC"], [magnification |-> "x40"], [description |-> "d1"]}

\* onClick of a chip of the draft strip, or of a draft card of the history tab
\* (a click on the chip already selected changes nothing)
selectDraft(i) ==
  /\ UIFree
  /\ i \in 0..(Len(draftCases) - 1)
  /\ i # selectedDraftIndex
  /\ selectedDraftIndex' = i
  /\ UNCHANGED <<user, notification, isAIProcessing, isMinimized, batchProgress,
                 queuedImages, draftCases, globalHistory, dbCases, dbDrafts, txq,
                 tasks, usedIds, runsStarted, clock, faults, trace, components>>

\* The tail every edit handler shares:
\*   setDraftCases(prev => prev.map((d, i) => i === selectedDraftIndex ? updated : d));
\*   saveToDB(STORE_DRAFTS, updated);
\* The promise of saveToDB is dropped: when the open fails nothing is written and
\* nothing is told.
EditDraft(updated) ==
  \E opens \in BOOLEAN :
    /\ opens \/ faults < MaxFaults
    /\ trace.ops < MaxOps
    /\ draftCases' = [draftCases EXCEPT ![selectedDraftIndex + 1] = updated]
    /\ txq' = IF opens THEN saveToDB(STORE_DRAFTS, updated) ELSE txq
    /\ faults' = IF opens THEN faults ELSE faults + 1
    /\ trace' = [trace EXCEPT !.ops = @ + 1, !.lastEdit[updated.id] = Some(updated)]
    /\ UNCHANGED <<user, notification, isAIProcessing, isMinimized, batchProgress,
                   queuedImages, globalHistory, selectedDraftIndex, dbCases,
                   dbDrafts, tasks, usedIds, runsStarted, clock, components>>

\* onChange of the category select
organChange(v) ==
  /\ UIFree /\ HasCurrent
  /\ EditDraft([currentCase EXCEPT !.organCategory = v])

\* TextEntry onUpdate / onRemove
textUpdate(id, up) ==
  /\ UIFree /\ HasCurrent
  /\ \E k \in 1..Len(currentCase.textSections) : currentCase.textSections[k].id = id
  /\ EditDraft([currentCase EXCEPT !.textSections =
       [k \in 1..Len(@) |-> IF @[k].id = id THEN Merge(@[k], up) ELSE @[k]]])

textRemove(id) ==
  /\ UIFree /\ HasCurrent
  /\ \E k \in 1..Len(currentCase.textSections) : currentCase.textSections[k].id = id
  /\ EditDraft([currentCase EXCEPT !.textSections = SelectSeq(@, LAMBDA x : x.id # id)])

\* ImageEntry onUpdate / onRemove
imageUpdate(id, up) ==
  /\ UIFree /\ HasCurrent
  /\ \E k \in 1..Len(currentCase.images) : currentCase.images[k].id = id
  /\ EditDraft([currentCase EXCEPT !.images =
       [k \in 1..Len(@) |-> IF @[k].id = id THEN Merge(@[k], up) ELSE @[k]]])

imageRemove(id) ==
  /\ UIFree /\ HasCurrent
  /\ \E k \in 1..Len(currentCase.images) : currentCase.images[k].id = id
  /\ EditDraft([currentCase EXCEPT !.images = SelectSeq(@, LAMBDA x : x.id # id)])

\* cases.sort((a, b) => time(b.submittedAt) - time(a.submittedAt)): a stable sort,
\* latest first
\* new Date(0): the epoch, which is before every time the clock shows.
Epoch == -1

\* new Date(rec.submittedAt || 0).getTime()
getTime(rec) == IF "submittedAt" \in DOMAIN rec THEN rec.submittedAt ELSE Epoch

\* The same sort with the comparator's operands exchanged: earliest first.
RECURSIVE InsertAsc(_, _)
InsertAsc(x, sorted) ==
  IF sorted = <<>> THEN <<x>>
  ELSE IF getTime(Head(sorted)) <= getTime(x)
       THEN <<Head(sorted)>> \o InsertAsc(x, Tail(sorted))
       ELSE <<x>> \o sorted

RECURSIVE InsertDesc(_, _)
InsertDesc(x, sorted) ==
  IF sorted = <<>> THEN <<x>>
  ELSE IF getTime(Head(sorted)) >= getTime(x)
       THEN <<Head(sorted)>> \o InsertDesc(x, Tail(sorted))
       ELSE <<x>> \o sorted

RECURSIVE SortDesc(_)
SortDesc(recs) ==
  IF recs = <<>> THEN <<>>
  ELSE InsertDesc(recs[Len(recs)], SortDesc(SubSeq(recs, 1, Len(recs) - 1)))

\* A readonly transaction finishes: getAll hands the store's records, in key
\* order, to the handler that awaits them.
TxRead(store) ==
  /\ txq[store] # <<>>
  /\ LET k == NextTx(txq[store])
         o == txq[store][k]
     IN /\ o.op = "getAll"
        /\ txq' = [txq EXCEPT ![store] = RemoveAt(@, k)]
        /\ tasks' = [tasks EXCEPT ![o.task] =
             [@ EXCEPT !.pc = IF store = STORE_CASES THEN "casesRead" ELSE "draftsRead",
                       !.result = SortedByKey(store, Content(store))]]
  /\ UNCHANGED <<user, notification, isAIProcessing, isMinimized, batchProgress,
                 queuedImages, draftCases, globalHistory, selectedDraftIndex,
                 dbCases, dbDrafts, usedIds, runsStarted, clock, faults, trace, components>>

\* loadAllData up to its first await: getAllFromDB(STORE_CASES).  When the open
\* fails the promise rejects.
LoadBegin(t, r) ==
  \E opens \in BOOLEAN :
    /\ opens \/ faults < MaxFaults
    /\ txq' = IF opens THEN getAllFromDB(STORE_CASES, t) ELSE txq
    /\ faults' = IF opens THEN faults ELSE faults + 1
    /\ tasks' = [tasks EXCEPT ![t] = [r EXCEPT !.pc = "loadCases", !.rejected = ~opens]]

\* catch (err) { setNotification({ type: 'error', message: '失败' }) } of
\* handleCaseSubmit; the rejection of the loadAllData of the login effect is
\* caught by nothing.
LoadCatch(t, r) ==
  /\ notification' = IF r.kind = "submit" THEN Note("error", "submit failed")
                     ELSE notification
  /\ tasks' = [tasks EXCEPT ![t] = Idle]
  /\ UNCHANGED <<user, isAIProcessing, isMinimized, batchProgress, queuedImages,
                 draftCases, globalHistory, selectedDraftIndex, dbCases, dbDrafts,
                 txq, usedIds, runsStarted, clock, faults, trace, components>>

IsTask(t, kinds, pc) == tasks[t].kind \in kinds /\ tasks[t].pc = pc

\* The open of getAllFromDB(STORE_CASES) has failed
LoadRejected(t) ==
  /\ IsTask(t, {"submit", "load"}, "loadCases")
  /\ tasks[t].rejected
  /\ LoadCatch(t, tasks[t])

\* setGlobalHistory(cases.sort(...)); then getAllFromDB(STORE_DRAFTS)
LoadedCases(t) ==
  /\ IsTask(t, {"submit", "load"}, "casesRead")
  /\ globalHistory' = SortDesc(tasks[t].result)
  /\ \E opens \in BOOLEAN :
       /\ opens \/ faults < MaxFaults
       /\ txq' = IF opens THEN getAllFromDB(STORE_DRAFTS, t) ELSE txq
       /\ faults' = IF opens THEN faults ELSE faults + 1
       /\ tasks' = [tasks EXCEPT ![t] =
            [@ EXCEPT !.pc = "loadDrafts", !.rejected = ~opens, !.result = <<>>]]
  /\ UNCHANGED <<user, notification, isAIProcessing, isMinimized, batchProgress,
                 queuedImages, draftCases, selectedDraftIndex, dbCases, dbDrafts,
                 usedIds, runsStarted, clock, trace, components>>

\* The open of getAllFromDB(STORE_DRAFTS) has failed
LoadDraftsRejected(t) ==
  /\ IsTask(t, {"submit", "load"}, "loadDrafts")
  /\ tasks[t].rejected
  /\ LoadCatch(t, tasks[t])

\* setDraftCases(drafts); loadAllData returns, and handleCaseSubmit goes on with
\* setNotification({ type: 'success', message: '已存档' })
LoadedDrafts(t) ==
  /\ IsTask(t, {"submit", "load"}, "draftsRead")
  /\ draftCases' = tasks[t].result
  /\ notification' = IF tasks[t].kind = "submit" THEN Note("success", "archived")
                     ELSE notification
  /\ tasks' = [tasks EXCEPT ![t] = Idle]
  /\ UNCHANGED <<user, isAIProcessing, isMinimized, batchProgress, queuedImages,
                 globalHistory, selectedDraftIndex, dbCases, dbDrafts, txq,
                 usedIds, runsStarted, clock, faults, trace, components>>

\* const confirmed = { ...currentCase, submittedAt: new Date().toISOString() };
\* delete confirmed.id; delete confirmed.status
Confirmed(d, now) ==
  [caseId |-> d.caseId, organCategory |-> d.organCategory,
   textSections |-> d.textSections, images |-> d.images, submittedAt |-> now]

\* The click on the confirm button, up to await saveToDB(STORE_CASES, confirmed)
handleCaseSubmit ==
  /\ UIFree /\ HasCurrent /\ HasFreeSlot
  /\ trace.ops < MaxOps
  /\ trace' = [trace EXCEPT !.ops = @ + 1]
  /\ \E now \in Now : \E opens \in BOOLEAN :
       /\ opens \/ faults < MaxFaults
       /\ clock' = now
       /\ txq' = IF opens THEN saveToDB(STORE_CASES, Confirmed(currentCase, now)) ELSE txq
       /\ faults' = IF opens THEN faults ELSE faults + 1
       /\ tasks' = Spawn([kind |-> "submit", pc |-> "saveCase", id |-> currentCase.id,
                          confirmed |-> Confirmed(currentCase, now),
                          rejected |-> ~opens, result |-> <<>>])
  /\ UNCHANGED <<user, notification, isAIProcessing, isMinimized, batchProgress,
                 queuedImages, draftCases, globalHistory, selectedDraftIndex,
                 dbCases, dbDrafts, usedIds, runsStarted, components>>

\* await saveToDB returns: await removeFromDB(STORE_DRAFTS, currentCase.id)
SubmitSaved(t) ==
  /\ IsTask(t, {"submit"}, "saveCase")
  /\ LET r == tasks[t] IN
     IF r.rejected THEN LoadCatch(t, r)
     ELSE \E opens \in BOOLEAN :
            /\ opens \/ faults < MaxFaults
            /\ txq' = IF opens THEN removeFromDB(STORE_DRAFTS, r.id) ELSE txq
            /\ faults' = IF opens THEN faults ELSE faults + 1
            /\ trace' = IF opens THEN [trace EXCEPT !.lastEdit[r.id] = None] ELSE trace
            /\ tasks' = [tasks EXCEPT ![t] =
                 [r EXCEPT !.pc = "removeDraft", !.rejected = ~opens]]
            /\ UNCHANGED <<user, notification, isAIProcessing, isMinimized,
                           batchProgress, queuedImages, draftCases, globalHistory,
                           selectedDraftIndex, dbCases, dbDrafts, usedIds,
                           runsStarted, clock, components>>

\* await removeFromDB returns: await loadAllData()
SubmitRemoved(t) ==
  /\ IsTask(t, {"submit"}, "removeDraft")
  /\ LET r == tasks[t] IN
     IF r.rejected THEN LoadCatch(t, r)
     ELSE /\ LoadBegin(t, r)
          /\ UNCHANGED <<user, notification, isAIProcessing, isMinimized,
                         batchProgress, queuedImages, draftCases, globalHistory,
                         selectedDraftIndex, dbCases, dbDrafts, usedIds,
                         runsStarted, clock, trace, components>>

\* The click on a draft chip's delete button, up to await removeFromDB
handleDraftDelete(id) ==
  /\ UIFree /\ HasFreeSlot
  /\ trace.ops < MaxOps
  /\ queuedImages = <<>>
  /\ \E k \in 1..Len(draftCases) : draftCases[k].id = id
  /\ \E opens \in BOOLEAN :
       /\ opens \/ faults < MaxFaults
       /\ txq' = IF opens THEN removeFromDB(STORE_DRAFTS, id) ELSE txq
       /\ faults' = IF opens THEN faults ELSE faults + 1
       /\ trace' = [trace EXCEPT !.ops = @ + 1,
                                 !.lastEdit[id] = IF opens THEN None ELSE @]
       /\ tasks' = Spawn([kind |-> "delete", pc |-> "removeDraft", id |-> id,
                          rejected |-> ~opens])
  /\ UNCHANGED <<user, notification, isAIProcessing, isMinimized, batchProgress,
                 queuedImages, draftCases, globalHistory, selectedDraftIndex,
                 dbCases, dbDrafts, usedIds, runsStarted, clock, components>>

\* await removeFromDB returns: setDraftCases(prev => prev.filter(d => d.id !== id)).
\* A rejection leaves the handler by an exception nothing catches.
DeleteRemoved(t) ==
  /\ IsTask(t, {"delete"}, "removeDraft")
  /\ LET r == tasks[t] IN
     /\ draftCases' = IF r.rejected THEN draftCases
                      ELSE SelectSeq(draftCases, LAMBDA d : d.id # r.id)
     /\ trace' = IF r.rejected THEN trace
                 ELSE [trace EXCEPT !.deleted = @ \cup {r.id}]
  /\ tasks' = [tasks EXCEPT ![t] = Idle]
  /\ UNCHANGED <<user, notification, isAIProcessing, isMinimized, batchProgress,
                 queuedImages, globalHistory, selectedDraftIndex, dbCases, dbDrafts,
                 txq, usedIds, runsStarted, clock, faults, components>>

\* The page is reloaded: the App state is that of a fresh mount, handlers in
\* flight are gone with their read requests; the store and the writes already
\* issued stay.
reloadPage ==
  /\ user # NoVal
  /\ user' = NoVal
  /\ notification' = NoNote
  /\ isAIProcessing' = FALSE
  /\ isMinimized' = FALSE
  /\ batchProgress' = [current |-> 0, total |-> 0]
  /\ queuedImages' = <<>>
  /\ draftCases' = <<>>
  /\ globalHistory' = <<>>
  /\ selectedDraftIndex' = 0
  /\ tasks' = [t \in Slots |-> Idle]
  /\ txq' = [s \in Stores |-> SelectSeq(txq[s], LAMBDA o : o.op # "getAll")]
  /\ UNCHANGED <<dbCases, dbDrafts, usedIds, runsStarted, clock, faults, trace, components>>

\* The start button: setUser(...); the effect on [user] then calls loadAllData()
login ==
  /\ user = NoVal
  /\ user' = "Operator_01"
  /\ LoadBegin(FreeSlot, [kind |-> "load", pc |-> "loadCases", rejected |-> FALSE,
                          result |-> <<>>])
  /\ UNCHANGED <<notification, isAIProcessing, isMinimized, batchProgress,
                 queuedImages, draftCases, globalHistory, selectedDraftIndex,
                 dbCases, dbDrafts, usedIds, runsStarted, clock, trace, components>>

\* { ...c, status }
WithStatus(c, status) ==
  [f \in DOMAIN c \cup {"status"} |-> IF f = "status" THEN status ELSE c[f]]

\* The unified history of the history tab
unifiedHistory ==
  LET confirmed == [k \in 1..Len(globalHistory) |->
                      WithStatus(globalHistory[k], "confirmed")]
      drafts == [k \in 1..Len(draftCases) |-> WithStatus(draftCases[k], "draft")]
  IN SortDesc(confirmed \o drafts)

\* Drafts left by an earlier batch run over a one-page chunk: each has one text
\* section and one image.
ReviewCases ==
  CasesOver({NoVal, "1"}, {NoVal},
            {Some(<<[label |-> "diagnosis", content |-> "c0"]>>)},
            {Some(<<g>>) : g \in BatchRegions})

InitReview ==
  /\ user = "Operator_01"
  /\ notification = NoNote
  /\ isAIProcessing = FALSE
  /\ isMinimized = FALSE
  /\ batchProgress = [current |-> 0, total |-> 0]
  /\ queuedImages = <<>>
  /\ \E n \in 1..MaxDrafts : \E cs \in [1..n -> ReviewCases] :
       /\ draftCases = [k \in 1..n |-> NewDraft(cs[k], <<1>>, k, 0)]
       /\ dbDrafts = {NewDraft(cs[k], <<1>>, k, 0) : k \in 1..n}
       /\ usedIds = 1..n
  /\ globalHistory = <<>>
  /\ selectedDraftIndex = 0
  /\ dbCases = {}
  /\ txq = [s \in Stores |-> <<>>]
  /\ tasks = [t \in Slots |-> Idle]
  /\ runsStarted = 0
  /\ clock = 0
  /\ faults = 0
  /\ trace = NoTrace
  /\ NoTextEntry
  /\ NoCrop

NextReview ==
  \/ \E i \in 0..(MaxDrafts - 1) : selectDraft(i)
  \/ \E v \in OrganChoices : organChange(v)
  \/ \E id \in 1..MaxRegions : \E up \in TextPatches : textUpdate(id, up)
  \/ \E id \in 1..MaxRegions : textRemove(id)
  \/ \E id \in 1..MaxRegions : \E up \in ImagePatches : imageUpdate(id, up)
  \/ \E id \in 1..MaxRegions : imageRemove(id)
  \/ handleCaseSubmit
  \/ \E t \in Slots : SubmitSaved(t)
  \/ \E t \in Slots : SubmitRemoved(t)
  \/ \E t \in Slots : LoadRejected(t)
  \/ \E t \in Slots : LoadedCases(t)
  \/ \E t \in Slots : LoadDraftsRejected(t)
  \/ \E t \in Slots : LoadedDrafts(t)
  \/ \E id \in DraftIds : handleDraftDelete(id)
  \/ \E t \in Slots : DeleteRemoved(t)
  \/ dismissNotification
  \/ reloadPage
  \/ login
  \/ \E s \in Stores : TxCommit(s)
  \/ \E s \in Stores : TxAbort(s)
  \/ \E s \in Stores : TxRead(s)

SpecReview == InitReview /\ [][NextReview]_vars

\* The review with confirmation as the only way a draft leaves the draft store:
\* no field is edited and no draft is deleted by the operator.
NextConfirm ==
  \/ \E i \in 0..(MaxDrafts - 1) : selectDraft(i)
  \/ handleCaseSubmit
  \/ \E t \in Slots : SubmitSaved(t)
  \/ \E t \in Slots : SubmitRemoved(t)
  \/ \E t \in Slots : LoadRejected(t)
  \/ \E t \in Slots : LoadedCases(t)
  \/ \E t \in Slots : LoadDraftsRejected(t)
  \/ \E t \in Slots : LoadedDrafts(t)
  \/ dismissNotification
  \/ reloadPage
  \/ login
  \/ \E s \in Stores : TxCommit(s)
  \/ \E s \in Stores : TxAbort(s)
  \/ \E s \in Stores : TxRead(s)

SpecConfirm == InitReview /\ [][NextConfirm]_vars

\* The page is opened on stores left by earlier sessions: confirmed records and
\* drafts, each with or without a submittedAt (the field is optional in CaseRecord).
StoredTimes == {None} \cup {Some(c) : c \in 0..1}
StoredCaseIds == {"Case-0-0", "Case-0-1"}
Stored(caseId, time) ==
  IF time = None
    THEN [caseId |-> caseId, organCategory |-> "", textSections |-> <<>>,
          images |-> <<>>]
    ELSE [caseId |-> caseId, organCategory |-> "", textSections |-> <<>>,
          images |-> <<>>, submittedAt |-> time[1]]

StoredDraft(id, caseId, time) ==
  [f \in DOMAIN Stored(caseId, time) \cup {"id", "status"} |->
     IF f = "id" THEN id ELSE IF f = "status" THEN "draft"
     ELSE Stored(caseId, time)[f]]

InitHistory ==
  /\ user = NoVal
  /\ notification = NoNote
  /\ isAIProcessing = FALSE
  /\ isMinimized = FALSE
  /\ batchProgress = [current |-> 0, total |-> 0]
  /\ queuedImages = <<>>
  /\ draftCases = <<>>
  /\ globalHistory = <<>>
  /\ selectedDraftIndex = 0
  /\ \E ids \in SUBSET StoredCaseIds : \E time \in [ids -> StoredTimes] :
       dbCases = {Stored(c, time[c]) : c \in ids}
  /\ \E n \in 0..MaxDrafts :
       \E caseId \in [1..n -> StoredCaseIds] : \E time \in [1..n -> StoredTimes] :
         /\ dbDrafts = {StoredDraft(k, caseId[k], time[k]) : k \in 1..n}
         /\ usedIds = 1..n
  /\ txq = [s \in Stores |-> <<>>]
  /\ tasks = [t \in Slots |-> Idle]
  /\ runsStarted = 0
  /\ clock = 0
  /\ faults = 0
  /\ trace = NoTrace
  /\ NoTextEntry
  /\ NoCrop

NextHistory ==
  \/ login
  \/ reloadPage
  \/ \E s \in Stores : TxRead(s)
  \/ \E t \in Slots : LoadRejected(t)
  \/ \E t \in Slots : LoadedCases(t)
  \/ \E t \in Slots : LoadDraftsRejected(t)
  \/ \E t \in Slots : LoadedDrafts(t)
  \/ \E id \in DraftIds : handleDraftDelete(id)
  \/ \E t \in Slots : DeleteRemoved(t)
  \/ TxCommit(STORE_DRAFTS)

SpecHistory == InitHistory /\ [][NextHistory]_vars

\* A diagnostic-basis section of the selected draft is shown and edited; the App
\* hands the content given to onUpdate back as the section prop.
InitTextEntry ==
  /\ user = "Operator_01"
  /\ notification = NoNote
  /\ isAIProcessing = FALSE
  /\ isMinimized = FALSE
  /\ batchProgress = [current |-> 0, total |-> 0]
  /\ queuedImages = <<>>
  /\ draftCases = <<>>
  /\ globalHistory = <<>>
  /\ selectedDraftIndex = 0
  /\ dbCases = {}
  /\ dbDrafts = {}
  /\ txq = [s \in Stores |-> <<>>]
  /\ tasks = [t \in Slots |-> Idle]
  /\ usedIds = {}
  /\ runsStarted = 0
  /\ clock = 0
  /\ faults = 0
  /\ trace = NoTrace
  /\ \E content \in Texts : section = [label |-> "basis", content |-> content]
  /\ structuredBasis = InitialBasis(section)
  /\ NoCrop

NextTextEntry ==
  \/ \E key \in Range(BasisKeys) : \E value \in Keystrokes(structuredBasis[key]) :
       handleStructuredChange(key, value) /\ AppIdle /\ UNCHANGED crop
  \/ mountTextEntry /\ AppIdle /\ UNCHANGED crop

SpecTextEntry == InitTextEntry /\ [][NextTextEntry]_vars

\* A mounted section whose label and plain content are edited as well.  The label
\* select and the plain textarea hand a partial update to onUpdate, which merges it
\* into the section; the component is keyed by the section id, so neither remounts
\* it and the useState initializer of structuredBasis does not run again.
MaxWord == 1

Words == SeqsUpTo(Chars, MaxWord)

SectionLabels == {"basis", "diagnosis"}

isDiagnosticBasis == section.label = "basis"

labelChange(label) ==
  /\ section' = [section EXCEPT !.label = label]
  /\ UNCHANGED structuredBasis

contentChange(value) ==
  /\ ~isDiagnosticBasis
  /\ section' = [section EXCEPT !.content = value]
  /\ UNCHANGED structuredBasis

InitSection ==
  /\ user = "Operator_01"
  /\ notification = NoNote
  /\ isAIProcessing = FALSE
  /\ isMinimized = FALSE
  /\ batchProgress = [current |-> 0, total |-> 0]
  /\ queuedImages = <<>>
  /\ draftCases = <<>>
  /\ globalHistory = <<>>
  /\ selectedDraftIndex = 0
  /\ dbCases = {}
  /\ dbDrafts = {}
  /\ txq = [s \in Stores |-> <<>>]
  /\ tasks = [t \in Slots |-> Idle]
  /\ usedIds = {}
  /\ runsStarted = 0
  /\ clock = 0
  /\ faults = 0
  /\ trace = NoTrace
  /\ \E label \in SectionLabels : \E content \in Words :
       section = [label |-> label, content |-> content]
  /\ structuredBasis = InitialBasis(section)
  /\ NoCrop

NextSection ==
  \/ \E key \in Range(BasisKeys) : \E value \in Words :
       isDiagnosticBasis /\ handleStructuredChange(key, value) /\ AppIdle /\ UNCHANGED crop
  \/ \E label \in SectionLabels : labelChange(label) /\ AppIdle /\ UNCHANGED crop
  \/ \E value \in Words : contentChange(value) /\ AppIdle /\ UNCHANGED crop

SpecSection == InitSection /\ [][NextSection]_vars

\* The cropper is called on a page of one of these sizes with a box of coordinates
\* on the 0..1000 scale, in any order.
Sizes == {1, 3, 100}
Coords == {0, 1, 290, 500, 1000}
InitCrop ==
  /\ user = "Operator_01"
  /\ notification = NoNote
  /\ isAIProcessing = FALSE
  /\ isMinimized = FALSE
  /\ batchProgress = [current |-> 0, total |-> 0]
  /\ queuedImages = <<>>
  /\ draftCases = <<>>
  /\ globalHistory = <<>>
  /\ selectedDraftIndex = 0
  /\ dbCases = {}
  /\ dbDrafts = {}
  /\ txq = [s \in Stores |-> <<>>]
  /\ tasks = [t \in Slots |-> Idle]
  /\ usedIds = {}
  /\ runsStarted = 0
  /\ clock = 0
  /\ faults = 0
  /\ trace = NoTrace
  /\ NoTextEntry
  /\ \E w, h \in Sizes : \E box \in [1..4 -> Coords] :
       crop = [img |-> [width |-> w, height |-> h], box |-> box,
               canvas |-> None, origin |-> None]

NextCrop == cropImageByCoordinates

SpecCrop == InitCrop /\ [][NextCrop]_vars

\* A batch run with the review open beside it: the queue holds freshly imported
\* pages and the draft list one draft left by an earlier session (its id, 0, is
\* none of those uuidv4 hands out in this one).
InitMixed ==
  /\ user = "Operator_01"
  /\ notification = NoNote
  /\ isAIProcessing = FALSE
  /\ isMinimized = FALSE
  /\ batchProgress = [current |-> 0, total |-> 0]
  /\ \E n \in 1..MaxPages : queuedImages = [k \in 1..n |-> [id |-> k, selected |-> TRUE]]
  /\ \E c \in ReviewCases :
       /\ draftCases = <<NewDraft(c, <<1>>, 0, 0)>>
       /\ dbDrafts = {NewDraft(c, <<1>>, 0, 0)}
  /\ globalHistory = <<>>
  /\ selectedDraftIndex = 0
  /\ dbCases = {}
  /\ txq = [s \in Stores |-> <<>>]
  /\ tasks = [t \in Slots |-> Idle]
  /\ usedIds = {}
  /\ runsStarted = 0
  /\ clock = 0
  /\ faults = 0
  /\ trace = NoTrace
  /\ NoTextEntry
  /\ NoCrop

\* A handler whose await has settled goes on in a microtask, before any event
\* (a click, a response, an image load, a transaction's completion) is handled.
ContinuationDue ==
  \E t \in Slots :
    \/ tasks[t].pc \in {"save", "saveCase", "removeDraft", "casesRead", "draftsRead"}
    \/ tasks[t].pc \in {"loadCases", "loadDrafts"} /\ tasks[t].rejected

\* Storage does not fail here: no open request is refused, no transaction aborts.
NoFault == faults' = faults

NextMixed ==
  \/ \E t \in Slots : BatchSaved(t) /\ NoFault
  \/ \E t \in Slots : SubmitSaved(t) /\ NoFault
  \/ \E t \in Slots : SubmitRemoved(t) /\ NoFault
  \/ \E t \in Slots : LoadedCases(t) /\ NoFault
  \/ \E t \in Slots : LoadedDrafts(t)
  \/ ~ContinuationDue /\ processBatchSequentially
  \/ ~ContinuationDue /\ toggleMinimized
  \/ ~ContinuationDue /\ dismissNotification
  \/ ~ContinuationDue /\ handleCaseSubmit /\ NoFault
  \/ ~ContinuationDue /\ \E t \in Slots : BatchResponse(t) /\ NoFault
  \/ ~ContinuationDue /\ \E t \in Slots : BatchCropDone(t) /\ NoFault
  \/ ~ContinuationDue /\ \E s \in Stores : TxCommit(s)
  \/ ~ContinuationDue /\ \E s \in Stores : TxRead(s)

SpecMixed == InitMixed /\ [][NextMixed]_vars

\* ================================================================ properties
SelectedIds(q) ==
  LET picked == SelectSeq(q, LAMBDA img : img.selected)
  IN [k \in 1..Len(picked) |-> picked[k].id]

IsPrefix(s, u) == Len(s) <= Len(u) /\ s = SubSeq(u, 1, Len(s))

\* The step is taken by the handler in slot t
StepOf(t) == tasks'[t] # tasks[t]
Starts(t) == ~IsRun(t) /\ tasks'[t].kind = "batch" /\ tasks'[t].pc # "done"
Ends(t) == IsRun(t) /\ tasks'[t].pc = "done"
EndsWith(t, type) == Ends(t) /\ notification'.type = type

\* C1: a run sends only the pages selected at its start; every chunk it sends
\* has 1 or 2 pages; the chunks sent so far, concatenated in sending order, are a
\* prefix of the selection in queue order; and a run that completes has sent
\* exactly ceil(N/2) chunks whose concatenation is the whole selection.
C1Step ==
  \A t \in Slots :
    /\ Starts(t) => /\ tasks'[t].sel = SelectedIds(queuedImages)
                    /\ Len(tasks'[t].sel) >= 1
    /\ (IsRun(t) /\ StepOf(t)) =>
         LET r == tasks[t] IN
         /\ \A c \in 1..Len(r.sent) : Len(r.sent[c]) \in 1..CHUNK_SIZE
         /\ IsPrefix(Flatten(r.sent), r.sel)
         /\ Len(r.sent) = Ceil(Len(Flatten(r.sent)), CHUNK_SIZE)
         /\ EndsWith(t, "success") =>
              /\ Flatten(r.sent) = r.sel
              /\ Len(r.sent) = Ceil(Len(r.sel), CHUNK_SIZE)
C1_Chunking == [][C1Step]_vars

\* A run over three selected pages has sent its second, one-page chunk
C1_Witness ==
  \E t \in Runs : /\ Len(tasks[t].sel) = 3
                  /\ Len(tasks[t].sent) = 2
                  /\ Len(tasks[t].sent[2]) = 1

\* C2: the step in which a run raises the failure notification ends the run (no
\* later chunk is called, the failed chunk is not called again), leaves the draft
\* store and the writes issued to it as they were, and is the only step of the
\* run that changes the notification besides its success; a rejected draft write
\* is followed by that step.
C2Step ==
  \A t \in Slots :
    (IsRun(t) /\ StepOf(t)) =>
      LET r == tasks[t] IN
      /\ notification' # notification =>
           \/ EndsWith(t, "success")
           \/ /\ notification' = Note("error", "batch failed")
              /\ Ends(t)
      /\ EndsWith(t, "error") =>
           /\ notification' = Note("error", "batch failed")
           /\ tasks'[t] = Idle
           /\ dbDrafts' = dbDrafts
           /\ txq' = txq
           /\ draftCases' = draftCases
      /\ r.rejected => EndsWith(t, "error")
      /\ ~Ends(t) => Len(tasks'[t].sent) >= Len(r.sent) /\ tasks'[t].i >= r.i
C2_AbortKeepsDrafts == [][C2Step]_vars

\* The only run started has failed, and a draft it wrote is in the draft store
C2_Witness ==
  /\ runsStarted = 1
  /\ Runs = {}
  /\ notification = Note("error", "batch failed")
  /\ dbDrafts # {}

\* A write of the draft with this id is issued and has not finished
PendingIn(q, id) ==
  \E k \in 1..Len(q) : \/ q[k].op = "put" /\ q[k].data.id = id
                       \/ q[k].op = "delete" /\ q[k].key = id

\* C3: when handleCaseSubmit returns with the success notification for draft d,
\* neither the draft list nor the draft store has an entry with d.id, and the
\* confirmed store has exactly one record with d.caseId: d's latest in-memory
\* value without id and status, submittedAt being the confirmation time.
C3Step ==
  \A t \in Slots :
    (IsTask(t, {"submit"}, "draftsRead") /\ tasks'[t] = Idle /\ user' = user) =>
      LET r == tasks[t]
          latest == {Confirmed(draftCases[k], r.confirmed.submittedAt) :
                       k \in {j \in 1..Len(draftCases) : draftCases[j].id = r.id}}
      IN /\ notification' = Note("success", "archived")
         /\ \A k \in 1..Len(draftCases') : draftCases'[k].id # r.id
         /\ \A d \in dbDrafts' : d.id # r.id
         /\ Cardinality({c \in dbCases' : c.caseId = r.confirmed.caseId}) = 1
         /\ (latest \cup {r.confirmed}) \subseteq dbCases'
C3_SubmitMovesDraft == [][C3Step]_vars

ConfirmedFields == {"caseId", "organCategory", "textSections", "images", "submittedAt"}

\* C4: the confirmed store never holds two records with one caseId, and no
\* record in it carries a draft id; a confirmed write that takes effect on a
\* caseId already stored leaves the key set as it was and stores the new record.
C4Step ==
  /\ \A a, b \in dbCases' : a.caseId = b.caseId => a = b
  /\ \A c \in dbCases' : DOMAIN c = ConfirmedFields
  /\ LET q == txq[STORE_CASES] IN
     (q # <<>> /\ q[1].op = "put" /\ txq'[STORE_CASES] = Tail(q) /\ faults' = faults) =>
       /\ q[1].data \in dbCases'
       /\ (\E c \in dbCases : c.caseId = q[1].data.caseId) =>
            {c.caseId : c \in dbCases'} = {c.caseId : c \in dbCases}
C4_OneRecordPerCaseId == [][C4Step]_vars

\* Two drafts with one caseId have both been confirmed, with no failure and no
\* deletion: the second confirmed write has replaced the record of the first.
C4_Witness ==
  /\ faults = 0 /\ trace.deleted = {} /\ trace.ops = 2
  /\ usedIds = {1, 2}
  /\ dbDrafts = {}
  /\ \A st \in Stores : txq[st] = <<>>
  /\ Cardinality(dbCases) = 1
  /\ \E c \in dbCases : c.submittedAt = 1

\* C5: once handleDraftDelete(id) has returned, the draft list has no entry with
\* that id, the draft store has none once the writes issued for it have
\* finished, and the unified history shows no draft with that id.
C5_DeletedDraftIsGone ==
  \A id \in trace.deleted :
    /\ \A k \in 1..Len(draftCases) : draftCases[k].id # id
    /\ ~PendingIn(txq[STORE_DRAFTS], id) => \A d \in dbDrafts : d.id # id
    /\ \A k \in 1..Len(unifiedHistory) :
         unifiedHistory[k].status = "draft" => unifiedHistory[k].id # id

\* C6: an edit issues exactly one write, of the complete value it produced; and
\* once the writes issued for a draft have finished, the draft store holds the
\* value the draft was last edited to.
C6Step ==
  \A id \in DraftIds :
    /\ (trace'.lastEdit[id] # None /\ ~PendingIn(txq'[STORE_DRAFTS], id)) =>
         trace'.lastEdit[id][1] \in dbDrafts'
    /\ (trace'.lastEdit[id] # None /\ trace'.lastEdit[id] # trace.lastEdit[id]) =>
         /\ txq'[STORE_DRAFTS] =
              Append(txq[STORE_DRAFTS], PutOp(trace'.lastEdit[id][1]))
         /\ draftCases'[selectedDraftIndex + 1] = trace'.lastEdit[id][1]
C6_StoreFollowsLastEdit == [][C6Step]_vars

\* C7: at every moment at most one extraction-service call is outstanding.
C7_OneCallOutstanding ==
  Cardinality({t \in Slots : IsRun(t) /\ tasks[t].pc = "call"}) <= 1

\* C8: while processing is in progress the progress counter never decreases and
\* never exceeds the total; when a run issues the call of its k-th chunk the
\* counter is k and the total is ceil(N/2) for the run's N pages.
C8Step ==
  /\ (isAIProcessing /\ isAIProcessing') =>
        batchProgress'.current >= batchProgress.current
  /\ isAIProcessing' => batchProgress'.current <= batchProgress'.total
  /\ \A t \in Slots :
       (StepOf(t) /\ ~Ends(t) /\ tasks'[t].pc = "call") =>
         /\ batchProgress'.current = Len(tasks'[t].sent)
         /\ batchProgress'.total = Ceil(Len(tasks'[t].sel), CHUNK_SIZE)
C8_Progress == [][C8Step]_vars

\* C9: a draft gets one image for every region that has a box and whose declared
\* index, a missing index being read as 0, lies within the current chunk; the
\* image's source is the chunk's page at that index; every other region is dropped.
C9Kept(chunk, info) ==
  /\ info.box_2d # NoVal
  /\ \/ info.originalImageIndex = None
     \/ info.originalImageIndex[1] \in 0..(Len(chunk) - 1)

C9Page(chunk, info) ==
  IF info.originalImageIndex = None THEN chunk[1]
  ELSE chunk[info.originalImageIndex[1] + 1]

\* The step in which the run in slot t builds a draft
Drafted(t) ==
  /\ IsRun(t) /\ tasks'[t].pc = "save"
  /\ Len(tasks'[t].chunkDrafts) = Len(tasks[t].chunkDrafts) + 1

C9Step ==
  \A t \in Slots :
    Drafted(t) =>
      LET r == tasks'[t]
          chunk == SubSeq(r.sel, r.i + 1, Min(r.i + CHUNK_SIZE, Len(r.sel)))
          infos == RegionsOf(r.cases[r.j])
          images == r.chunkDrafts[Len(r.chunkDrafts)].images
          of(k) == {n \in 1..Len(images) : images[n].id = k}
      IN /\ \A k \in 1..Len(infos) :
              IF C9Kept(chunk, infos[k])
              THEN /\ Cardinality(of(k)) = 1
                   /\ \A n \in of(k) : images[n].source = C9Page(chunk, infos[k])
              ELSE of(k) = {}
         /\ \A n \in 1..Len(images) : images[n].id \in 1..Len(infos)
C9_SourceWithinChunk == [][C9Step]_vars

\* C9 as stated: a region whose index is missing or outside the chunk contributes
\* no image; a region with a box and an index within the chunk gets the chunk's
\* page at that index.
C9StatedStep ==
  \A t \in Slots :
    Drafted(t) =>
      LET r == tasks'[t]
          chunk == SubSeq(r.sel, r.i + 1, Min(r.i + CHUNK_SIZE, Len(r.sel)))
          infos == RegionsOf(r.cases[r.j])
          images == r.chunkDrafts[Len(r.chunkDrafts)].images
          of(k) == {n \in 1..Len(images) : images[n].id = k}
      IN \A k \in 1..Len(infos) :
           IF infos[k].originalImageIndex = None
           THEN of(k) = {}
           ELSE IF infos[k].originalImageIndex[1] \in 0..(Len(chunk) - 1)
                THEN infos[k].box_2d # NoVal =>
                       \A n \in of(k) : images[n].source = C9Page(chunk, infos[k])
                ELSE of(k) = {}
C9_MissingIndexDropped == [][C9StatedStep]_vars

\* In its second chunk a run has built a draft from a region with a box and no
\* index: the draft's image is cut from the chunk's first page, the queue's third.
C9_Witness ==
  \E t \in Runs :
    LET r == tasks[t] IN
    /\ r.pc = "save" /\ r.i = CHUNK_SIZE /\ r.chunkDrafts # <<>>
    /\ RegionsOf(r.cases[r.j]) # <<>>
    /\ RegionsOf(r.cases[r.j])[1].originalImageIndex = None
    /\ RegionsOf(r.cases[r.j])[1].box_2d # NoVal
    /\ LET images == r.chunkDrafts[Len(r.chunkDrafts)].images IN
       /\ Len(images) = 1
       /\ images[1].source = r.sel[CHUNK_SIZE + 1]

\* C10: when the only run started ends, no page of a chunk that was extracted and
\* whose drafts are in the draft store is still in the page queue.
C10Step ==
  \A t \in Slots :
    (runsStarted = 1 /\ Ends(t)) =>
      LET r == tasks[t]
          consumed == Range(SubSeq(r.sel, 1, r.i))
      IN (r.appended # {} /\ r.appended \subseteq {d.id : d \in dbDrafts}) =>
           \A k \in 1..Len(queuedImages') : queuedImages'[k].id \notin consumed
C10_ConsumedPagesLeave == [][C10Step]_vars

\* C11: every draft a run has written has each text-section label in TextLabel,
\* each image type in ImageType and each image magnification in Magnification.
C11_DraftsWithinEnums ==
  \A d \in dbDrafts :
    /\ \A k \in 1..Len(d.textSections) : d.textSections[k].label \in TextLabels
    /\ \A k \in 1..Len(d.images) : /\ d.images[k].type \in ImageTypes
                                    /\ d.images[k].magnification \in Magnifications

\* C12: the content handleStructuredChange stores, read back by the initializer of
\* structuredBasis, gives the four sub-field values that were stored; and with gross,
\* he and ihc all empty the stored content is the general text itself.
C12Step ==
  section' /= section =>
    /\ InitialBasis(section') = structuredBasis'
    /\ (structuredBasis'.gross = <<>> /\ structuredBasis'.he = <<>>
          /\ structuredBasis'.ihc = <<>>)
         => section'.content = structuredBasis'.general

C12_BasisRoundTrip == [][C12Step]_vars

\* The same with the case left out where only the general text is filled in.
C12Structured ==
  (section' /= section /\ (structuredBasis'.gross /= <<>> \/ structuredBasis'.he /= <<>>
                            \/ structuredBasis'.ihc /= <<>>))
    => InitialBasis(section') = structuredBasis'

C12_StructuredRoundTrip == [][C12Structured]_vars

\* C13: the unified history holds one item for each confirmed record as loaded,
\* tagged confirmed, and one for each draft of the draft list, tagged draft, and
\* nothing else; it is ordered by submittedAt, latest first, the items without a
\* submittedAt after all those that have one.
C13Tagged ==
  [k \in 1..(Len(globalHistory) + Len(draftCases)) |->
     IF k <= Len(globalHistory)
       THEN WithStatus(globalHistory[k], "confirmed")
       ELSE WithStatus(draftCases[k - Len(globalHistory)], "draft")]

C13_HistoryMergedAndOrdered ==
  LET u == unifiedHistory
      n == Len(C13Tagged)
  IN /\ Len(u) = n
     /\ \E p \in [1..n -> 1..n] :
          /\ \A a, b \in 1..n : p[a] = p[b] => a = b
          /\ \A k \in 1..n : u[p[k]] = C13Tagged[k]
     /\ \A i, j \in 1..n :
          (i < j /\ "submittedAt" \in DOMAIN u[j]) =>
            /\ "submittedAt" \in DOMAIN u[i]
            /\ u[i].submittedAt >= u[j].submittedAt

\* Loaded: a confirmed record and two drafts, one item without a submittedAt and
\* two with different ones.
C13_Witness ==
  /\ Len(globalHistory) >= 1 /\ Len(draftCases) >= 2
  /\ \E i, j, k \in 1..Len(unifiedHistory) :
       /\ "submittedAt" \notin DOMAIN unifiedHistory[i]
       /\ "submittedAt" \in DOMAIN unifiedHistory[j]
       /\ "submittedAt" \in DOMAIN unifiedHistory[k]
       /\ unifiedHistory[j].submittedAt # unifiedHistory[k].submittedAt

\* C14: when a caseId is in the unified history as a confirmed record, the history
\* shows no draft item with that caseId (here: when the drafts have pairwise
\* different caseIds, so that the draft is the one the record was confirmed from,
\* and no handler or storage request is in flight).
C14_ConfirmedIsAuthoritative ==
  (/\ \A a, b \in dbDrafts \cup Range(draftCases) : a.caseId = b.caseId => a = b
   /\ \A t \in Slots : tasks[t] = Idle
   /\ \A st \in Stores : txq[st] = <<>>) =>
    \A i, j \in 1..Len(unifiedHistory) :
      (unifiedHistory[i].status = "confirmed" /\ unifiedHistory[j].status = "draft")
        => unifiedHistory[i].caseId # unifiedHistory[j].caseId

\* C15: the step a run takes on a response with no cases (an empty array, or no
\* body) creates and writes no draft and raises no failure: with chunks left the
\* run calls the next chunk, and after the last chunk it ends with the success
\* notification and an empty queue.
C15Step ==
  \A t \in Slots :
    Response(t, CasesOf(None)) =>
      LET r == tasks[t] IN
      /\ draftCases' = draftCases /\ usedIds' = usedIds
      /\ dbDrafts' = dbDrafts /\ txq' = txq
      /\ IF r.i + CHUNK_SIZE < Len(r.sel)
           THEN /\ notification' = notification
                /\ tasks'[t].kind = "batch" /\ tasks'[t].pc = "call"
                /\ tasks'[t].i = r.i + CHUNK_SIZE
                /\ tasks'[t].sent = Append(r.sent, ChunkAt(r.sel, r.i + CHUNK_SIZE))
           ELSE /\ EndsWith(t, "success")
                /\ queuedImages' = <<>>
                /\ isAIProcessing' = FALSE
C15_EmptyChunkIsNoFailure == [][C15Step]_vars

\* The only run, over two chunks that both came back without cases, has ended
\* with the success notification, an empty queue and no draft.
C15_Witness ==
  /\ runsStarted = 1 /\ batchProgress = [current |-> 2, total |-> 2]
  /\ notification.type = "success"
  /\ queuedImages = <<>> /\ usedIds = {} /\ draftCases = <<>>
  /\ \A t \in Slots : tasks[t] = Idle

\* C16: a failing write or delete is reported and not tried again: the step in
\* which it fails puts no request in a queue, and either raises the failure
\* notification or leaves a handler with a rejected await, and a handler other
\* than the initial load that returns from a rejected await raises it.
C16Step ==
  /\ faults' > faults =>
       /\ \A st \in Stores : Len(txq'[st]) <= Len(txq[st])
       /\ \/ notification'.type = "error"
          \/ \E t \in Slots : tasks'[t].pc # "done" /\ tasks'[t].rejected
  /\ \A t \in Slots :
       (/\ tasks[t].pc # "done" /\ tasks[t].kind # "load" /\ tasks[t].rejected
        /\ tasks'[t] = Idle /\ user' = user)
         => notification'.type = "error"
C16_StorageFailureReported == [][C16Step]_vars

\* C17: the canvas the cropper returns is at least 1 pixel wide and high for every
\* box; for a box with 0 <= ymin < ymax <= 1000 and 0 <= xmin < xmax <= 1000 its
\* width is within a pixel of (xmax - xmin) * W / 1000, its height within a pixel
\* of (ymax - ymin) * H / 1000, and the source origin is (xmin * W / 1000,
\* ymin * H / 1000); a box of zero width or height gives a dimension of 1.
\* (Extents and the origin are compared in thousandths of a pixel.)
C17_CropProportional ==
  crop.canvas # None =>
    LET ymin == crop.box[1]
        xmin == crop.box[2]
        ymax == crop.box[3]
        xmax == crop.box[4]
        W == crop.img.width
        H == crop.img.height
        out == crop.canvas[1]
        Within(n, num) == 1000 * n - num <= 1000 /\ num - 1000 * n <= 1000
    IN /\ out.width >= 1 /\ out.height >= 1
       /\ (ymin < ymax /\ xmin < xmax) =>
            /\ Within(out.width, (xmax - xmin) * W)
            /\ Within(out.height, (ymax - ymin) * H)
            /\ crop.origin[1] = [x |-> xmin * W, y |-> ymin * H]
       /\ xmin = xmax => out.width = 1
       /\ ymin = ymax => out.height = 1

\* A crop of a box of zero width whose height is not a whole number of pixels and
\* more than one pixel has been made.
C17_Witness ==
  /\ crop.canvas # None
  /\ crop.box[2] = crop.box[4] /\ crop.box[1] < crop.box[3]
  /\ crop.canvas[1].height > 1
  /\ ((crop.box[3] - crop.box[1]) * crop.img.height) % 1000 # 0

\* C18: when a run hands a draft to the draft store, no case of the chunk's
\* response has a crop that is pending or not yet started.
C18Step ==
  \A t \in Slots :
    (/\ IsRun(t) /\ tasks'[t].kind = "batch" /\ tasks'[t].pc = "save"
     /\ txq'[STORE_DRAFTS] # txq[STORE_DRAFTS]
     /\ tasks'[t].saved # tasks[t].saved) =>
      LET r == tasks'[t] IN
      /\ r.pending = {}
      /\ \A k \in (r.j + 1)..Len(r.cases) :
           \A n \in 1..Len(RegionsOf(r.cases[k])) :
             ~IsCropped(Chunk(r), RegionsOf(r.cases[k])[n])
C18_CropsBeforeFirstWrite == [][C18Step]_vars

\* C19: when a run ends, by success or by failure, the drafts it has handed to the
\* draft store are the drafts it has appended to the draft list: every id it saved
\* is in the list, and every id it appended was saved.
C19Step ==
  \A t \in Slots :
    Ends(t) =>
      LET r == tasks[t]
          listed == {draftCases'[k].id : k \in 1..Len(draftCases')}
          before == {draftCases[k].id : k \in 1..Len(draftCases)}
      IN /\ r.saved \subseteq listed
         /\ (r.appended \cup (listed \ before)) \subseteq r.saved
C19_SavedAreAppended == [][C19Step]_vars

\* C20: a draft leaves the draft store during confirmation only when its
\* confirmed record is written: in the step that removes it, the confirmed store
\* holds a record of its caseId, or the write of one is still queued (so that the
\* record is, or is about to be, in one of the two collections, and a failed
\* confirmed write keeps the draft).
C20Step ==
  \A d \in dbDrafts \ dbDrafts' :
    \/ \E c \in dbCases' : c.caseId = d.caseId
    \/ \E k \in 1..Len(txq'[STORE_CASES]) :
         /\ txq'[STORE_CASES][k].op = "put"
         /\ txq'[STORE_CASES][k].data.caseId = d.caseId
C20_DeleteAfterConfirmedWrite == [][C20Step]_vars

\* C21: the in-memory draft list never holds two entries with one draft id.
C21_DraftIdsUnique ==
  \A i, j \in 1..Len(draftCases) : draftCases[i].id = draftCases[j].id => i = j

\* C22: when every extraction call, crop and storage write settles, a run that
\* has started ends; the step that ends it clears isAIProcessing and raises the
\* success or the failure notification, and no earlier step of the run raises one.
C22Step ==
  \A t \in Slots :
    /\ Ends(t) =>
         /\ isAIProcessing' = FALSE
         /\ notification' \in {Note("success", "batch done"), Note("error", "batch failed")}
    /\ (IsRun(t) /\ StepOf(t) /\ ~Ends(t)) => notification' = notification
C22_RunTerminates ==
  /\ [][C22Step]_vars
  /\ \A t \in Slots : IsRun(t) ~> ~IsRun(t)

\* The only run started has ended in success with a draft made; the flag is clear
C22_Witness ==
  /\ runsStarted = 1 /\ Runs = {}
  /\ notification = Note("success", "batch done")
  /\ ~isAIProcessing
  /\ Len(draftCases) >= 1


\* C23: under the diagnostic-basis label, a sub-field edit keeps what the section
\* had stored: every sub-field the edit does not touch, and that the stored content
\* holds a text for, is written back with that text.
C23Stored == InitialBasis([label |-> "basis", content |-> section.content])

C23Step ==
  (isDiagnosticBasis /\ structuredBasis' /= structuredBasis) =>
    \A key \in Range(BasisKeys) :
      (structuredBasis'[key] = structuredBasis[key] /\ C23Stored[key] /= <<>>) =>
        structuredBasis'[key] = C23Stored[key]

C23_SubFieldEditKeepsStored == [][C23Step]_vars

====
